---- MODULE Spec2Model ----
(***************************************************************************)
(* The XRay layer of tracing-xray (src/src/lib.rs): the three callbacks    *)
(* on_new_span, on_follows_from and on_close, driven by a host registry    *)
(* that keeps one extension slot per span behind a reader-writer lock.     *)
(*                                                                         *)
(* Values.  Option<T> is a sequence of length at most one: <<>> is None,   *)
(* <<x>> is Some(x).  An identifier is a tuple <<origin, k>>; a text that  *)
(* is not a well-formed identifier is a tuple of another length.  A header *)
(* text is the sequence of its ';'-separated parts, a part being           *)
(* <<key, value>> for "key=value" and <<token>> for a part without '='.    *)
(*                                                                         *)
(* The module `types` (Segment, Header, TraceId, SegmentId, Seconds) is    *)
(* declared at lib.rs:11 and its files are not part of src/: Segment       *)
(* begin/end, the header parser, the generators and the clock are          *)
(* modelled from the specification text.                                   *)
(***************************************************************************)
EXTENDS Integers, Sequences, FiniteSets, TLC

\* The clock's last reading in the model.
MaxClock == 1

\* The units of work (spans) the host creates.  It delivers follow and close
\* events for the units of Active, in any order and any number; the third
\* unit is created like the others and then stays open, a predecessor the
\* others may follow.
Units == {"A", "B", "C"}
Active == {"A", "B"}

None == <<>>
Some(x) == <<x>>

\* The attribute key looked up by on_new_span (lib.rs:99).
TraceHeaderKey == "x-amzn-trace-id"

----------------------------------------------------------------------------
(* Identifiers, clock, header: modelled from the specification.             *)

\* generate_trace_id / generate_segment_id: a value no other call returns.
\* Segment::begin runs once per unit of work, so the value drawn for unit k
\* is named by k; values propagated by an upstream caller have another origin.
generate_trace_id(k) == <<"local", k>>
generate_segment_id(k) == <<"local", k>>
UpstreamTraceId == <<"upstream", "root">>
UpstreamSegmentId == <<"upstream", "parent">>

IsTraceId(x) == Len(x) = 2
IsSegmentId(x) == Len(x) = 2

HeaderError(e) == [ok |-> FALSE, err |-> e]
HeaderOk(t, p, s) ==
    [ok |-> TRUE, trace_id |-> t, parent_id |-> p, sampling_decision |-> s]

\* The sampling field: "Sampled=0" / "Sampled=1"; any other flag is an error.
ParseSampled(rest, t, p) ==
    IF Len(rest) = 0 THEN HeaderOk(t, p, "Unknown")
    ELSE IF Len(rest) > 1 \/ Len(rest[1]) # 2 \/ rest[1][1] # "Sampled"
         THEN HeaderError("MissingField")
    ELSE IF rest[1][2] = "0" THEN HeaderOk(t, p, "NotSampled")
    ELSE IF rest[1][2] = "1" THEN HeaderOk(t, p, "Sampled")
    ELSE HeaderError("UnknownSamplingFlag")

\* The optional parent field, then the sampling field.
ParseParent(rest, t) ==
    IF Len(rest) > 0 /\ Len(rest[1]) = 2 /\ rest[1][1] = "Parent"
    THEN IF IsSegmentId(rest[1][2])
         THEN ParseSampled(Tail(rest), t, Some(rest[1][2]))
         ELSE HeaderError("MalformedSegmentId")
    ELSE ParseSampled(rest, t, None)

\* Header::from_str: Root, then optional Parent, then optional Sampled.
ParseHeader(text) ==
    IF Len(text) = 0 \/ Len(text[1]) # 2 \/ text[1][1] # "Root"
    THEN HeaderError("MissingField")
    ELSE IF ~IsTraceId(text[1][2]) THEN HeaderError("MalformedTraceId")
    ELSE ParseParent(Tail(text), text[1][2])

\* The Header values an upstream caller can hold.
SamplingDecisions == {"Sampled", "NotSampled", "Unknown"}
Headers ==
    {[trace_id |-> t, parent_id |-> p, sampling_decision |-> sd] :
        t \in {UpstreamTraceId},
        p \in {None, Some(UpstreamSegmentId)},
        sd \in SamplingDecisions}

\* Header's format writing a Sampled field for every decision, "Sampled=?"
\* for Unknown.
FormatHeaderAlwaysSampled(h) ==
    << <<"Root", h.trace_id>> >>
    \o (IF h.parent_id = None THEN <<>> ELSE << <<"Parent", h.parent_id[1]>> >>)
    \o << <<"Sampled", CASE h.sampling_decision = "Sampled" -> "1"
                          [] h.sampling_decision = "NotSampled" -> "0"
                          [] OTHER -> "?">> >>

\* Header's format: Root;Parent;Sampled in that order, Parent omitted when
\* absent; within the grammar Sampled=<0|1> an Unknown decision is written
\* as no Sampled field.
FormatHeader(h) ==
    << <<"Root", h.trace_id>> >>
    \o (IF h.parent_id = None THEN <<>> ELSE << <<"Parent", h.parent_id[1]>> >>)
    \o (CASE h.sampling_decision = "Sampled" -> << <<"Sampled", "1">> >>
          [] h.sampling_decision = "NotSampled" -> << <<"Sampled", "0">> >>
          [] OTHER -> <<>>)

----------------------------------------------------------------------------
(* State of a segment (lib.rs:56-75) and the Segment record.                *)

Done(t) == [end_time |-> t]
InProgress == [in_progress |-> TRUE]
StateDefault == InProgress

IsDone(st) == "end_time" \in DOMAIN st
IsInProgress(st) == "in_progress" \in DOMAIN st

\* Segment::begin(name): fresh ids, start_time = now, default state,
\* parent_id and resource_arn unset.
SegmentBegin(name, t, k) ==
    [trace_id |-> generate_trace_id(k),
     id |-> generate_segment_id(k),
     name |-> name,
     start_time |-> t,
     parent_id |-> None,
     resource_arn |-> None,
     state |-> StateDefault]

\* Segment::end(): InProgress -> Done{now}; on a Done segment it is a fault
\* and the segment is left as it is.
SegmentEnd(seg, t) ==
    IF IsInProgress(seg.state)
    THEN [fault |-> FALSE, seg |-> [seg EXCEPT !.state = Done(t)]]
    ELSE [fault |-> TRUE, seg |-> seg]

----------------------------------------------------------------------------
(* Serialization (serde derives, lib.rs:33-69).  A document is a function   *)
(* from field names to values.                                              *)

\* State as a struct with both fields always written (no untagged enum):
\* end_time and in_progress appear together.
SerializeStateTagged(st) ==
    IF IsDone(st)
    THEN ("end_time" :> st.end_time) @@ ("in_progress" :> FALSE)
    ELSE ("end_time" :> 0) @@ ("in_progress" :> st.in_progress)

\* #[serde(untagged)] enum State: a variant serializes as its own fields and
\* nothing else.
SerializeState(st) ==
    IF IsDone(st)
    THEN ("end_time" :> st.end_time)
    ELSE ("in_progress" :> st.in_progress)

\* The shared fields, with #[serde(flatten)] merging the state's fields into
\* the document.
SerializeSharedData(data) ==
    ("trace_id" :> data.trace_id) @@ ("id" :> data.id) @@ ("name" :> data.name)
    @@ ("start_time" :> data.start_time) @@ SerializeState(data.state)

\* Segment's document: the shared fields, and parent_id / resource_arn when
\* they are set.
SerializeSegment(seg) ==
    SerializeSharedData(seg)
    @@ (IF seg.parent_id = None THEN <<>> ELSE ("parent_id" :> seg.parent_id[1]))
    @@ (IF seg.resource_arn = None THEN <<>>
        ELSE ("resource_arn" :> seg.resource_arn[1]))

----------------------------------------------------------------------------
(* The layer's configuration (lib.rs:21-32).                                *)

XRayDefault == [resource_arn |-> None]
with_resource_arn(self, arn) == [resource_arn |-> Some(arn)]

----------------------------------------------------------------------------
(* Inputs: the attributes of a new span.                                    *)

NoFields == [k \in {} |-> None]
HeaderSampled ==
    << <<"Root", UpstreamTraceId>>, <<"Parent", UpstreamSegmentId>>,
       <<"Sampled", "1">> >>
HeaderNotSampled == << <<"Root", UpstreamTraceId>>, <<"Sampled", "0">> >>
HeaderNoRoot == << <<"Sampled", "1">> >>
HeaderValues == {FormatHeader(h) : h \in Headers} \cup {HeaderNoRoot}

AttributesSet ==
    {[name |-> "op", fields |-> NoFields]}
    \cup {[name |-> "op", fields |-> (TraceHeaderKey :> v)] : v \in HeaderValues}
NoAttributes == [name |-> "", fields |-> NoFields]

\* FieldSet::field(name): the field of that name, when the span declares it.
\* A Field is a key into the span's values; it is identified by its name.
field(attrs, name) ==
    IF name \in DOMAIN attrs.fields THEN Some(name) ELSE None

\* id.to_string() at lib.rs:100-101, `id` being the Field found at line 99:
\* a Field displays as its name, a text of one part without '='.
FieldToString(f) == << <<f>> >>

\* The value the span carries under the header key, if any (what the
\* upstream caller propagated).
HeaderValue(attrs) ==
    IF TraceHeaderKey \in DOMAIN attrs.fields
    THEN Some(attrs.fields[TraceHeaderKey]) ELSE None

----------------------------------------------------------------------------
VARIABLES
    xray,     \* the layer: [resource_arn]
    now,      \* the clock's current reading
    phase,    \* per unit, the host's lifecycle: "new", "open", "closed"
    attrs,    \* per unit, the attributes the span was created with
    pc,       \* per unit, "idle" or the position of its running on_follows_from
    arg,      \* per unit, the `follows` argument of its running on_follows_from
    slot,     \* per unit, the span's extension storage: Option<Segment>
    writer,   \* per unit, whether the extensions' write lock is held
    last      \* the callback that returned in the latest step, if one did

vars == <<xray, now, phase, attrs, pc, arg, slot, writer, last>>

\* ctx.span(id): the registry holds the span from its creation on.
SpanExists(u) == phase[u] # "new"

NoEvent == [op |-> "", id |-> "", outcome |-> ""]
Returned(op, u) == [op |-> op, id |-> u, outcome |-> "ok"]
Panicked(op, u) == [op |-> op, id |-> u, outcome |-> "fault"]

Init ==
    /\ xray \in {XRayDefault, with_resource_arn(XRayDefault, "arn")}
    /\ now = 0
    /\ phase = [u \in Units |-> "new"]
    /\ attrs = [u \in Units |-> NoAttributes]
    /\ pc = [u \in Units |-> "idle"]
    /\ arg = [u \in Units |-> u]
    /\ slot = [u \in Units |-> None]
    /\ writer = [u \in Units |-> FALSE]
    /\ last = NoEvent

\* The wall clock advances; Seconds::now() reads `now`.
Tick ==
    /\ now < MaxClock
    /\ now' = now + 1
    /\ last' = NoEvent
    /\ UNCHANGED <<xray, phase, attrs, pc, arg, slot, writer>>

----------------------------------------------------------------------------
(* on_new_span (lib.rs:92-116).                                             *)

\* on_new_span without lines 99-109: the header is not looked at and the
\* segment is always inserted.
NewSpanDataNoHeader(self, a, data) ==
    [fault |-> FALSE,
     store |-> Some([data EXCEPT !.resource_arn = self.resource_arn])]

\* on_new_span parsing the value recorded under the header key instead of
\* id.to_string(): a header that parses is honoured.
NewSpanDataFromValue(self, a, data) ==
    LET f == field(a, TraceHeaderKey)
        with_arn == [data EXCEPT !.resource_arn = self.resource_arn]
    IN  IF f # None
        THEN LET header == ParseHeader(HeaderValue(a)[1])
             IN  IF ~header.ok
                 THEN [fault |-> TRUE, store |-> None]
                 ELSE IF header.sampling_decision = "NotSampled"
                 THEN [fault |-> FALSE, store |-> None]
                 ELSE [fault |-> FALSE,
                       store |-> Some([with_arn EXCEPT
                                          !.trace_id = header.trace_id,
                                          !.parent_id = header.parent_id])]
        ELSE [fault |-> FALSE, store |-> Some(with_arn)]

\* on_new_span without line 110: the segment keeps the resource_arn that
\* Segment::begin left unset.
NewSpanDataNoArn(self, a, data) ==
    LET f == field(a, TraceHeaderKey)
    IN  IF f # None
        THEN LET header == ParseHeader(FieldToString(f[1]))
             IN  IF ~header.ok
                 THEN [fault |-> TRUE, store |-> None]
                 ELSE IF header.sampling_decision = "NotSampled"
                 THEN [fault |-> FALSE, store |-> None]
                 ELSE [fault |-> FALSE,
                       store |-> Some([data EXCEPT
                                          !.trace_id = header.trace_id,
                                          !.parent_id = header.parent_id])]
        ELSE [fault |-> FALSE, store |-> Some(data)]

\* What the handler does with the segment `data` that Segment::begin made:
\* a fault (the expect at line 103), a return without a segment (line 105),
\* or the segment to insert (lines 107-115).
NewSpanData(self, a, data) ==
    LET f == field(a, TraceHeaderKey)
        with_arn == [data EXCEPT !.resource_arn = self.resource_arn]
    IN  IF f # None
        THEN LET header == ParseHeader(FieldToString(f[1]))
             IN  IF ~header.ok
                 THEN [fault |-> TRUE, store |-> None]
                 ELSE IF header.sampling_decision = "NotSampled"
                 THEN [fault |-> FALSE, store |-> None]
                 ELSE [fault |-> FALSE,
                       store |-> Some([with_arn EXCEPT
                                          !.trace_id = header.trace_id,
                                          !.parent_id = header.parent_id])]
        ELSE [fault |-> FALSE, store |-> Some(with_arn)]

\* Unit-of-work created: the registry creates span u with attributes a and
\* calls the layer, once per unit.  The span exists (lines 112-114);
\* extensions_mut() takes the slot's write lock for the insert and drops it.
on_new_span(u, a) ==
    /\ phase[u] = "new"
    /\ pc[u] = "idle"
    /\ ~writer[u]
    /\ phase' = [phase EXCEPT ![u] = "open"]
    /\ attrs' = [attrs EXCEPT ![u] = a]
    /\ LET out == NewSpanData(xray, a, SegmentBegin(a.name, now, u))
       IN  /\ slot' = [slot EXCEPT ![u] =
                          IF out.store # None THEN out.store ELSE @]
           /\ last' = IF out.fault THEN Panicked("on_new_span", u)
                                   ELSE Returned("on_new_span", u)
    /\ UNCHANGED <<xray, now, pc, arg, writer>>

----------------------------------------------------------------------------
(* on_follows_from (lib.rs:118-134).                                        *)

\* Unit-of-work-follows(a, b), lines 119-123: look span a up, take its
\* extensions' write lock, and get the Segment.  A missing span or Segment
\* is a panic, which unwinds and drops the guard.
on_follows_from_lock(a, b) ==
    /\ pc[a] = "idle"
    /\ IF SpanExists(a) /\ slot[a] # None
       THEN /\ ~writer[a]
            /\ writer' = [writer EXCEPT ![a] = TRUE]
            /\ pc' = [pc EXCEPT ![a] = "follows_locked"]
            /\ arg' = [arg EXCEPT ![a] = b]
            /\ last' = NoEvent
       ELSE /\ (SpanExists(a) => ~writer[a])
            /\ last' = Panicked("on_follows_from", a)
            /\ UNCHANGED <<writer, pc, arg>>
    /\ UNCHANGED <<xray, now, phase, attrs, slot>>

\* Line 133 guarded by `if data.parent_id.is_none()`: a parent once set
\* is kept.
FollowsLinkKeep(data, follows_data) ==
    IF data.parent_id = None
    THEN [data EXCEPT !.parent_id = Some(follows_data.id)]
    ELSE data

\* Line 133 joining the predecessor's trace as well: trace_id is copied
\* along with the parent link.
FollowsLinkAdoptTrace(data, follows_data) ==
    [data EXCEPT !.parent_id = Some(follows_data.id),
                 !.trace_id = follows_data.trace_id]

\* Line 133 with `data.id` for `follows_data.id`: the segment is made its
\* own parent.
FollowsLinkOwnId(data, follows_data) ==
    [data EXCEPT !.parent_id = Some(data.id)]

\* Line 133: data.parent_id = Some(follows_data.id.clone()).
FollowsLink(data, follows_data) ==
    [data EXCEPT !.parent_id = Some(follows_data.id)]

\* Lines 129-133 with the predecessor's Segment optional: parent_id is set
\* to the predecessor's id when it has one and to None when it has not.
FollowsDataUnchecked(data, follows_ext) ==
    [fault |-> FALSE,
     data |-> [data EXCEPT !.parent_id =
                  IF follows_ext = None THEN None ELSE Some(follows_ext[1].id)]]

\* Lines 129-133 on the follower's Segment `data` and the predecessor's
\* extensions: without a Segment there the expect panics and data is as it
\* was.
FollowsData(data, follows_ext) ==
    IF follows_ext = None
    THEN [fault |-> TRUE, data |-> data]
    ELSE [fault |-> FALSE, data |-> FollowsLink(data, follows_ext[1])]

\* Lines 125-134: look the predecessor up, take its extensions' read lock
\* (waiting while a writer holds it), get its Segment, set parent_id, and
\* drop both guards.  A missing span or Segment is a panic.
on_follows_from_link(a) ==
    /\ pc[a] = "follows_locked"
    /\ LET b == arg[a]
       IN  IF ~SpanExists(b)
           THEN /\ last' = Panicked("on_follows_from", a)
                /\ UNCHANGED slot
           ELSE /\ ~writer[b]
                /\ LET out == FollowsData(slot[a][1], slot[b])
                   IN  /\ slot' = [slot EXCEPT ![a] = Some(out.data)]
                       /\ last' = IF out.fault
                                  THEN Panicked("on_follows_from", a)
                                  ELSE Returned("on_follows_from", a)
    /\ writer' = [writer EXCEPT ![a] = FALSE]
    /\ pc' = [pc EXCEPT ![a] = "idle"]
    /\ arg' = [arg EXCEPT ![a] = a]
    /\ UNCHANGED <<xray, now, phase, attrs>>

\* Line 128 when `follows` is the span itself: the thread asks for the read
\* lock while it holds the write lock.  The lock either never grants it (the
\* handler stays at "follows_locked") or detects it and panics.
on_follows_from_relock(a) ==
    /\ pc[a] = "follows_locked"
    /\ arg[a] = a
    /\ writer' = [writer EXCEPT ![a] = FALSE]
    /\ pc' = [pc EXCEPT ![a] = "idle"]
    /\ last' = Panicked("on_follows_from", a)
    /\ UNCHANGED <<xray, now, phase, attrs, arg, slot>>

----------------------------------------------------------------------------
(* on_close (lib.rs:136-143).                                               *)

\* Line 142 as `data.state = State::Done { end_time: Seconds::now() }`:
\* the state is written whatever it was.
CloseDataOverwrite(ext, t) ==
    IF ext = None
    THEN [fault |-> TRUE, ext |-> ext]
    ELSE [fault |-> FALSE, ext |-> Some([ext[1] EXCEPT !.state = Done(t)])]

\* Line 142 with the fault of end() swallowed: a Done segment is left as it
\* is and the handler returns normally.
CloseDataSilent(ext, t) ==
    IF ext = None
    THEN [fault |-> TRUE, ext |-> ext]
    ELSE [fault |-> FALSE, ext |-> Some(SegmentEnd(ext[1], t).seg)]

\* Line 142 ending the segment with Seconds::default() instead of the
\* clock's reading.
CloseDataDefaultTime(ext, t) ==
    IF ext = None
    THEN [fault |-> TRUE, ext |-> ext]
    ELSE LET ended == SegmentEnd(ext[1], 0)
         IN  [fault |-> ended.fault, ext |-> Some(ended.seg)]

\* Lines 139-142 on the span's extensions: without a Segment the expect
\* panics; with one, data.end().
CloseData(ext, t) ==
    IF ext = None
    THEN [fault |-> TRUE, ext |-> ext]
    ELSE LET ended == SegmentEnd(ext[1], t)
         IN  [fault |-> ended.fault, ext |-> Some(ended.seg)]

\* Unit-of-work-closed(u), lines 137-142: look the span up, take the write
\* lock, get the Segment (a missing span or Segment is a panic) and end it.
\* The host's phase records that the unit's close event was delivered.
on_close(u) ==
    /\ pc[u] = "idle"
    /\ phase' = [phase EXCEPT ![u] = IF @ = "open" THEN "closed" ELSE @]
    /\ IF SpanExists(u)
       THEN /\ ~writer[u]
            /\ LET out == CloseData(slot[u], now)
               IN  /\ slot' = [slot EXCEPT ![u] = out.ext]
                   /\ last' = IF out.fault THEN Panicked("on_close", u)
                                           ELSE Returned("on_close", u)
       ELSE /\ last' = Panicked("on_close", u)
            /\ UNCHANGED slot
    /\ UNCHANGED <<xray, now, attrs, pc, arg, writer>>

----------------------------------------------------------------------------
Next ==
    \/ Tick
    \/ \E u \in Units, a \in AttributesSet : on_new_span(u, a)
    \/ \E a \in Active, b \in Units : on_follows_from_lock(a, b)
    \/ \E a \in Active : on_follows_from_link(a)
    \/ \E a \in Active : on_follows_from_relock(a)
    \/ \E u \in Active : on_close(u)

Spec == Init /\ [][Next]_vars

\* A handler that is past line 123 runs on its own thread: when the read
\* lock of line 128 can be granted it is taken and the handler finishes.
\* Nothing obliges the host to deliver further events, nor the lock to panic
\* on a re-entrant request.
FairSpec == Spec /\ \A a \in Active : WF_vars(on_follows_from_link(a))

----------------------------------------------------------------------------
(* Properties.                                                              *)
(* `last` names the callback that returned in the latest step, so in an     *)
(* action formula last' = Returned(op, u) or Panicked(op, u) says that the   *)
(* step is the return of op for unit u.                                      *)

\* The header value unit u was created with, parsed.
Parsed(u) == ParseHeader(HeaderValue(attrs[u])[1])
HasHeader(u) == phase[u] # "new" /\ HeaderValue(attrs[u]) # None
Unsampled(u) ==
    HasHeader(u) /\ Parsed(u).ok /\ Parsed(u).sampling_decision = "NotSampled"
Unparseable(u) == HasHeader(u) /\ ~Parsed(u).ok
Adoptable(u) ==
    HasHeader(u) /\ Parsed(u).ok /\ Parsed(u).sampling_decision # "NotSampled"

Stored(u) == slot[u] # None
Segment(u) == slot[u][1]

\* C1: a unit of work created with a header value that parses as NotSampled
\* has no Segment in its slot, in every state from the start handler on and
\* whatever the other units do.
C1_UnsampledHasNoSegment ==
    \A u \in Units : Unsampled(u) => ~Stored(u)

\* C1 witness: the start handler has just run for a NotSampled unit, its
\* slot is empty, and another unit holds a Segment.
C1_Witness ==
    \E u \in Units, v \in Units :
        /\ Unsampled(u) /\ ~Stored(u)
        /\ last.op = "on_new_span" /\ last.id = u
        /\ v # u /\ Stored(v)

\* C2: when on_follows_from(A, B) runs with A # B and both holding a
\* Segment, it returns normally and leaves A's parent_id = Some(B's id),
\* whatever A's parent_id was before.
C2_FollowSetsParent ==
    [][\A a \in Units :
          (/\ pc[a] = "follows_locked" /\ pc'[a] = "idle"
           /\ arg[a] # a /\ Stored(arg[a]))
          => /\ last' = Returned("on_follows_from", a)
             /\ slot'[a] # None
             /\ slot'[a][1].parent_id = Some(Segment(arg[a]).id)]_vars

\* C2 witness: on_follows_from has just returned for A, and A's parent_id is
\* the id of another unit's Segment.
C2_Witness ==
    \E a \in Units, b \in Units :
        /\ a # b /\ Stored(a) /\ Stored(b)
        /\ last = Returned("on_follows_from", a)
        /\ Segment(a).parent_id = Some(Segment(b).id)

\* C3 (as claimed): a unit created with a header value that does not parse
\* gets no fault from the start handler and holds a fresh root Segment: a
\* newly generated trace_id and, until a follow event, no parent_id.
C3_BadHeaderStartsFreshRoot ==
    \A u \in Units :
        Unparseable(u)
        => /\ last # Panicked("on_new_span", u)
           /\ Stored(u)
           /\ Segment(u).trace_id = generate_trace_id(u)
           /\ (last = Returned("on_new_span", u) => Segment(u).parent_id = None)

\* C4 (as claimed): for a unit whose header says NotSampled no Segment is
\* stored, and no event the host delivers in order (its start, a follow or
\* the first close while it is open, a follow of an open unit naming it as
\* predecessor) returns with a fault.
C4_UnsampledNeverFaults ==
    [][\A u \in Units :
          /\ Unsampled(u)' => slot'[u] = None
          /\ (/\ Unsampled(u)'
              /\ last'.id = u
              /\ (last'.op = "on_new_span" \/ phase[u] = "open"))
             => last'.outcome # "fault"
          /\ (/\ pc[u] = "follows_locked" /\ pc'[u] = "idle"
              /\ phase[u] = "open" /\ Unsampled(arg[u]))
             => last'.outcome # "fault"]_vars

\* C5: a Segment is InProgress when the start handler stores it; it stays
\* stored; while InProgress its state changes only in the return of the
\* unit's on_close, to Done{end_time = now}; and a Done state never changes.
C5_TwoStateLifecycle ==
    [][\A u \in Units :
          /\ (~Stored(u) /\ slot'[u] # None)
             => /\ last' = Returned("on_new_span", u)
                /\ slot'[u][1].state = InProgress
          /\ Stored(u) => slot'[u] # None
          /\ (Stored(u) /\ IsInProgress(Segment(u).state))
             => /\ (last'.op = "on_close" /\ last'.id = u)
                   => (/\ last' = Returned("on_close", u)
                       /\ slot'[u][1].state = Done(now))
                /\ slot'[u][1].state # Segment(u).state
                   => last' = Returned("on_close", u)
          /\ (Stored(u) /\ IsDone(Segment(u).state))
             => slot'[u][1].state = Segment(u).state]_vars

\* C5 witness: on_close has just moved a Segment to Done, and a later step
\* would find the clock past its start.
C5_Witness ==
    \E u \in Units :
        /\ Stored(u) /\ last = Returned("on_close", u)
        /\ Segment(u).state = Done(now)
        /\ Segment(u).start_time < now

\* C6: the return of on_close for a unit whose Segment is already Done is a
\* fault, and the Segment (its end_time included) is as it was.
C6_SecondCloseRejected ==
    [][\A u \in Units :
          (/\ Stored(u) /\ IsDone(Segment(u).state)
           /\ last'.op = "on_close" /\ last'.id = u)
          => /\ last' = Panicked("on_close", u)
             /\ slot'[u] = slot[u]]_vars

\* C6 witness: a second close has just faulted on a Done Segment whose
\* end_time is older than the clock's reading.
C6_Witness ==
    \E u \in Units :
        /\ Stored(u) /\ IsDone(Segment(u).state)
        /\ last = Panicked("on_close", u)
        /\ Segment(u).state.end_time < now

\* A handler at line 128 whose read lock is not granted: the predecessor's
\* write lock is held.
Waiting(a) ==
    pc[a] = "follows_locked" /\ SpanExists(arg[a]) /\ writer[arg[a]]

\* C7 (as claimed): no set of running handlers of different units is such
\* that each waits for a lock held by another of the set; in particular
\* "A follows B" and "B follows A" never wait on each other.
C7_NoCircularWait ==
    \A S \in SUBSET Units :
        S # {} => \E a \in S : ~(Waiting(a) /\ arg[a] # a /\ arg[a] \in S)

\* C8 (as claimed): a unit created with a header value that parses as
\* Sampled or Unknown holds a Segment with the header's trace_id and, when
\* the start handler returns, the header's parent_id.
C8_HeaderAdopted ==
    \A u \in Units :
        Adoptable(u)
        => /\ Stored(u)
           /\ Segment(u).trace_id = Parsed(u).trace_id
           /\ (last.op = "on_new_span" /\ last.id = u)
              => Segment(u).parent_id = Parsed(u).parent_id

\* C9: the return of on_close or on_follows_from for a unit without a
\* stored Segment, and of on_follows_from naming a predecessor without one,
\* is a fault, and no slot is changed by it.
C9_MissingSegmentFaults ==
    [][\A u \in Units :
          /\ (/\ ~Stored(u)
              /\ last'.op \in {"on_close", "on_follows_from"}
              /\ last'.id = u)
             => (last'.outcome = "fault" /\ slot' = slot)
          /\ (/\ pc[u] = "follows_locked" /\ pc'[u] = "idle"
              /\ ~Stored(arg[u]))
             => (last' = Panicked("on_follows_from", u) /\ slot' = slot)]_vars

\* C9 witness: on_close has just faulted for an existing span without a
\* Segment while another unit holds one.
C9_Witness ==
    \E u \in Units, v \in Units :
        /\ SpanExists(u) /\ ~Stored(u)
        /\ last = Panicked("on_close", u)
        /\ Stored(v)

\* C10: every Done Segment has end_time >= start_time.
C10_EndNotBeforeStart ==
    \A u \in Units :
        (Stored(u) /\ IsDone(Segment(u).state))
        => Segment(u).state.end_time >= Segment(u).start_time

\* C10 witness: a Segment started after the clock's first reading is Done.
C10_Witness ==
    \E u \in Units :
        /\ Stored(u) /\ IsDone(Segment(u).state)
        /\ Segment(u).start_time > 0
        /\ last = Returned("on_close", u)

\* C11: the document of every stored Segment has exactly one of the two
\* state fields: in_progress = TRUE and no end_time while InProgress, end_time
\* and no in_progress once Done.
C11_OneStateField ==
    \A u \in Units :
        Stored(u)
        => LET doc == SerializeSegment(Segment(u))
           IN  /\ IsInProgress(Segment(u).state)
                  => /\ "in_progress" \in DOMAIN doc
                     /\ doc["in_progress"] = TRUE
                     /\ "end_time" \notin DOMAIN doc
               /\ IsDone(Segment(u).state)
                  => /\ "end_time" \in DOMAIN doc
                     /\ doc["end_time"] = Segment(u).state.end_time
                     /\ "in_progress" \notin DOMAIN doc
               /\ ("in_progress" \in DOMAIN doc) # ("end_time" \in DOMAIN doc)

\* C11 witness: a Done Segment and an InProgress Segment are stored at once,
\* and the Done one's document carries a parent_id.
C11_Witness ==
    \E u \in Units, v \in Units :
        /\ Stored(u) /\ IsDone(Segment(u).state)
        /\ "parent_id" \in DOMAIN SerializeSegment(Segment(u))
        /\ Stored(v) /\ IsInProgress(Segment(v).state)

\* C12: the step that completes on_follows_from for unit a leaves every
\* other unit's slot as it was, the predecessor's included, and in a's
\* Segment every field but parent_id as it was.
C12_FollowWritesOnlyParent ==
    [][\A a \in Units :
          (pc[a] = "follows_locked" /\ pc'[a] = "idle")
          => /\ \A u \in Units \ {a} : slot'[u] = slot[u]
             /\ slot'[a] # None
             /\ \A f \in {"trace_id", "id", "name", "start_time",
                            "resource_arn", "state"} :
                    slot'[a][1][f] = slot[a][1][f]]_vars

\* C12 witness: on_follows_from has just set a's parent_id to the id of b,
\* whose own Segment is Done and has a parent of its own.
C12_Witness ==
    \E a \in Units, b \in Units :
        /\ a # b /\ Stored(a) /\ Stored(b)
        /\ last = Returned("on_follows_from", a)
        /\ Segment(a).parent_id = Some(Segment(b).id)
        /\ IsDone(Segment(b).state) /\ Segment(b).parent_id # None
        /\ Segment(a).trace_id # Segment(b).trace_id

C14_DoneIsReadOnly ==
    [][\A u \in Units :
          (Stored(u) /\ IsDone(Segment(u).state)) => slot'[u] = slot[u]]_vars

\* C15: every stored Segment's resource_arn is the layer's configured value
\* (Some(arn) after with_resource_arn, None for the default layer), and no
\* step changes the configuration or a stored Segment's resource_arn.
C15_ResourceArnFromConfig ==
    [][/\ xray' = xray
       /\ \A u \in Units :
             /\ slot'[u] # None => slot'[u][1].resource_arn = xray.resource_arn
             /\ Stored(u) => /\ slot'[u] # None
                             /\ slot'[u][1].resource_arn
                                    = Segment(u).resource_arn]_vars

\* C15 witness: under a layer built with with_resource_arn, a Segment that
\* went through a follow and its close carries the configured value.
C15_Witness ==
    \E u \in Units :
        /\ xray = with_resource_arn(XRayDefault, "arn")
        /\ Stored(u) /\ IsDone(Segment(u).state)
        /\ Segment(u).parent_id # None
        /\ Segment(u).resource_arn = Some("arn")

\* C16: for every Header h and every unit created with the text that
\* format produces for h, parsing that text succeeds and gives h back: the
\* same trace_id, parent_id and sampling decision.
C16_HeaderRoundTrip ==
    \A h \in Headers, u \in Units :
        (HasHeader(u) /\ HeaderValue(attrs[u])[1] = FormatHeader(h))
        => LET r == ParseHeader(HeaderValue(attrs[u])[1])
           IN  /\ r.ok
               /\ r.trace_id = h.trace_id
               /\ r.parent_id = h.parent_id
               /\ r.sampling_decision = h.sampling_decision

\* C16 witness: a unit was created with the text formatted from a Header
\* with a parent and the Unknown decision, and that text parses to it.
C16_Witness ==
    \E u \in Units, h \in Headers :
        /\ HasHeader(u)
        /\ h.parent_id # None /\ h.sampling_decision = "Unknown"
        /\ HeaderValue(attrs[u])[1] = FormatHeader(h)
        /\ Parsed(u) = HeaderOk(h.trace_id, h.parent_id, h.sampling_decision)

\* C17 (as claimed): for every unit created with the attribute
\* x-amzn-trace-id, the text on_new_span hands to the header parser is the
\* value propagated under that attribute.
C17_ParserGetsValue ==
    \A u \in Units :
        HasHeader(u)
        => FieldToString(field(attrs[u], TraceHeaderKey)[1])
              = HeaderValue(attrs[u])[1]

\* C18 (as claimed): whenever a stored Segment's parent_id is the id of
\* another unit's Segment (a link set by on_follows_from), the two Segments
\* have the same trace_id.
C18_ParentInSameTrace ==
    \A a \in Units, b \in Units :
        (/\ Stored(a) /\ Stored(b)
         /\ Segment(a).parent_id = Some(Segment(b).id))
        => Segment(a).trace_id = Segment(b).trace_id

\* C19 (as claimed): on_follows_from naming the same unit as follower and
\* predecessor terminates: once the handler holds the unit's write lock and
\* asks for its read lock, it eventually leaves the handler.
C19_SelfFollowTerminates ==
    \A a \in Units :
        (pc[a] = "follows_locked" /\ arg[a] = a) ~> (pc[a] = "idle")

\* C20: a Segment's parent_id is one optional id; it changes only in the
\* return of the unit's own on_follows_from, every such return with a stored
\* predecessor leaves it equal to that predecessor's id, and a Segment's id
\* never changes: after follows of B1, ..., Bn the parent is Bn's id.
C20_LatestFollowWins ==
    [][\A a \in Units :
          Stored(a)
          => /\ slot'[a] # None
             /\ slot'[a][1].id = Segment(a).id
             /\ Len(slot'[a][1].parent_id) <= 1
             /\ slot'[a][1].parent_id # Segment(a).parent_id
                => last' = Returned("on_follows_from", a)
             /\ (last' = Returned("on_follows_from", a) /\ Stored(arg[a]))
                => slot'[a][1].parent_id = Some(slot'[arg[a]][1].id)]_vars

\* C20 witness: a's latest follow has just returned and its parent is b's
\* id, while b in turn has the third unit as parent: follows were delivered
\* for both, and each Segment holds one parent.
C20_Witness ==
    \E a \in Units, b \in Units, c \in Units :
        /\ a # b /\ b # c /\ a # c
        /\ Stored(a) /\ Stored(b) /\ Stored(c)
        /\ last = Returned("on_follows_from", a)
        /\ Segment(a).parent_id = Some(Segment(b).id)
        /\ Segment(b).parent_id = Some(Segment(c).id)

====
